---- MODULE Spec2Model ----
(***************************************************************************)
(* Model of server.js: an express service over two mongoose collections   *)
(* (Course, File) and a local upload directory.  Every request is a       *)
(* process; a step of a request is one database operation taking effect,  *)
(* or one synchronous filesystem section of a handler.  Steps of          *)
(* different requests interleave freely, as the event loop allows.        *)
(*                                                                         *)
(* Strings are sequences of one-character strings, so that startsWith,    *)
(* replace(/\s+/g,'_'), string concatenation and decodeURIComponent are   *)
(* computed as the code computes them.                                     *)
(***************************************************************************)
EXTENDS Integers, Sequences, FiniteSets, TLC

\* ------------------------------------------------------------------ bounds
\* number of requests the clients send in one behaviour
MaxReq == 3
\* largest value Date.now() takes
MaxTime == 2
\* number of requests whose handlers are between two steps at one time
MaxInFlight == 2
\* number of database or filesystem operations that fail in one behaviour
MaxFaults == 1

Reqs == 1..MaxReq

\* ----------------------------------------------------------------- strings
\* a request field that is absent (req.body.x === undefined)
undefined == <<"undefined">>

\* a test that lets the empty string through
Falsy_OnlyUndefined(x) == x = undefined

\* !x for a request field: undefined and the empty string are falsy
Falsy(x) == x = undefined \/ x = <<>>

\* 'uploads/' : multer destination and the prefix tested by startsWith
UPLOADS == <<"u", "p", "l", "o", "a", "d", "s", "/">>

\* a prefix test that never matches
startsWith_Never(s, p) == FALSE

\* String.prototype.startsWith
startsWith(s, p) == Len(s) >= Len(p) /\ SubSeq(s, 1, Len(p)) = p

\* \s of a JavaScript regular expression (the ASCII members)
IsSpace(c) == c \in {" ", "\t", "\n", "\r", "\f"}

RECURSIVE SkipSpaces(_)
SkipSpaces(s) ==
    IF s # <<>> /\ IsSpace(Head(s)) THEN SkipSpaces(Tail(s)) ELSE s

\* originalname.replace(/\s+/g, '_'): every maximal run of whitespace -> '_'
RECURSIVE ReplaceSpaces(_)
ReplaceSpaces(s) ==
    IF s = <<>> THEN <<>>
    ELSE IF IsSpace(Head(s)) THEN <<"_">> \o ReplaceSpaces(SkipSpaces(Tail(s)))
    ELSE <<Head(s)>> \o ReplaceSpaces(Tail(s))

Digit == <<"0", "1", "2", "3", "4", "5", "6", "7", "8", "9">>

\* number -> decimal string, as Date.now() + '-' converts the number
RECURSIVE NumToString(_)
NumToString(n) ==
    IF n < 10 THEN <<Digit[n + 1]>>
    ELSE NumToString(n \div 10) \o <<Digit[(n % 10) + 1]>>

\* multer filename callback: Date.now() + '-' + originalname.replace(...)
safeName(t, originalname) ==
    NumToString(t) \o <<"-">> \o ReplaceSpaces(originalname)

\* `uploads/${file.filename}`
fileUrl(filename) == UPLOADS \o filename

\* value of a hexadecimal digit, -1 for any other character
HexVal(c) ==
    CASE c = "0" -> 0 [] c = "1" -> 1 [] c = "2" -> 2 [] c = "3" -> 3
      [] c = "4" -> 4 [] c = "5" -> 5 [] c = "6" -> 6 [] c = "7" -> 7
      [] c = "8" -> 8 [] c = "9" -> 9
      [] c \in {"a", "A"} -> 10 [] c \in {"b", "B"} -> 11
      [] c \in {"c", "C"} -> 12 [] c \in {"d", "D"} -> 13
      [] c \in {"e", "E"} -> 14 [] c \in {"f", "F"} -> 15
      [] OTHER -> -1

\* printable ASCII, code 32 first (code 96 is written out as a name)
Ascii ==
    <<" ", "!", "\"", "#", "$", "%", "&", "'", "(", ")", "*", "+", ",", "-",
      ".", "/", "0", "1", "2", "3", "4", "5", "6", "7", "8", "9", ":", ";",
      "<", "=", ">", "?", "@", "A", "B", "C", "D", "E", "F", "G", "H", "I",
      "J", "K", "L", "M", "N", "O", "P", "Q", "R", "S", "T", "U", "V", "W",
      "X", "Y", "Z", "[", "\\", "]", "^", "_", "grave", "a", "b", "c", "d", "e",
      "f", "g", "h", "i", "j", "k", "l", "m", "n", "o", "p", "q", "r", "s",
      "t", "u", "v", "w", "x", "y", "z", "{", "|", "}", "~">>

\* the character of a decoded byte below 0x80
FromCharCode(b) == IF b >= 32 /\ b <= 126 THEN Ascii[b - 31] ELSE "\\x"

\* result of a decodeURIComponent call that throws URIError
URIError == <<"URIError">>

\* decodeURIComponent: %XX escapes are replaced by the byte they name; a '%'
\* not followed by two hex digits throws, and so does an escaped byte >= 0x80
\* that does not start a well-formed UTF-8 sequence (every such byte does in
\* a string shorter than two escapes, which is all the model enumerates).
RECURSIVE decodeURIComponent(_)
decodeURIComponent(s) ==
    IF s = <<>> THEN <<>>
    ELSE IF Head(s) # "%"
    THEN LET rest == decodeURIComponent(Tail(s))
         IN  IF rest = URIError THEN URIError ELSE <<Head(s)>> \o rest
    ELSE IF Len(s) < 3 \/ HexVal(s[2]) < 0 \/ HexVal(s[3]) < 0 THEN URIError
    ELSE LET b == 16 * HexVal(s[2]) + HexVal(s[3])
             rest == decodeURIComponent(SubSeq(s, 4, Len(s)))
         IN  IF b >= 128 \/ rest = URIError THEN URIError
             ELSE <<FromCharCode(b)>> \o rest

\* ------------------------------------------------------------------ inputs
\* course names the clients use; "%4D" is the percent-encoding of "M"
CourseNames == {<<"M">>, <<"%", "4", "D">>}
\* :course values of GET /files/:course, as the router hands them over
RouteNames == CourseNames \cup {<<"%">>}
Titles == {<<"T">>}
\* originalname values of uploaded files
OriginalNames == {<<"a", " ", "b">>}
\* url values of add-file: an external one, and one with the upload prefix
Urls == {<<"h", "t", "t", "p", ":", "/", "/", "e">>,
         fileUrl(safeName(1, <<"a", " ", "b">>))}

\* ------------------------------------------------------------------- state
VARIABLES
    courses,   \* the Course collection: documents [id, name]
    files,     \* the File collection: documents [id, title, url, course]
    disk,      \* the upload directory: path -> request whose bytes it holds
    now,       \* Date.now()
    nextId,    \* source of fresh _id values
    faults,    \* number of operations that have failed so far
    req        \* the requests: arguments, handler locals, position, response

vars == <<courses, files, disk, now, nextId, faults, req>>

\* the result of a query that matches nothing
null == [id |-> 0]

\* a request that has not been sent yet
NoRequest ==
    [kind |-> "none", pc |-> "idle", title |-> undefined, url |-> undefined,
     course |-> undefined, file |-> undefined, id |-> 0, filename |-> undefined,
     doc |-> null, todo |-> <<>>, resp |-> 0, body |-> {}, made |-> {}]

Init ==
    /\ courses = {}
    /\ files = {}
    /\ disk = [p \in {} |-> 0]
    /\ now = 1
    /\ nextId = 1
    /\ faults = 0
    /\ req = [r \in Reqs |-> NoRequest]

InFlight == {q \in Reqs : req[q].pc \notin {"idle", "done"}}

\* requests are sent in the order of their numbers
CanSend(r) ==
    /\ req[r].pc = "idle"
    /\ Cardinality(InFlight) < MaxInFlight
    /\ IF r = 1 THEN TRUE ELSE req[r - 1].pc # "idle"

\* the outcome of the operation a step performs: it succeeds, or, while the
\* behaviour has faults left, it fails
Outcome(ok) ==
    /\ ~ok => faults < MaxFaults
    /\ faults' = IF ok THEN faults ELSE faults + 1

At(r, kind, pc) == req[r].kind = kind /\ req[r].pc = pc

\* res.status(code).json(...) and the end of the handler
Respond(rq, code) == [rq EXCEPT !.pc = "done", !.resp = code]

\* ------------------------------------------------------- collection queries
\* a lookup that never finds a course
CourseFindOne_Null(name) == null

\* Course.findOne({ name })
CourseFindOne(name) ==
    IF \E c \in courses : c.name = name
    THEN CHOOSE c \in courses :
            c.name = name /\ \A d \in courses : d.name = name => c.id <= d.id
    ELSE null

\* whether req.params.id casts to an ObjectId (24 hex digits); ids are
\* numbers here and -1 stands for a parameter that does not, such as 'abc',
\* for which findById rejects with a CastError
IsObjectId(id) == id >= 0

\* Model.findById(id)
FindById(coll, id) ==
    IF \E d \in coll : d.id = id THEN CHOOSE d \in coll : d.id = id ELSE null

\* a query that forgets its filter
FileFind_All(course) == files

\* File.find({ course })
FileFind(course) == {f \in files : f.course = course}

\* a query result as the array the driver returns, in insertion order
RECURSIVE ToArray(_)
ToArray(docs) ==
    IF docs = {} THEN <<>>
    ELSE LET d == CHOOSE x \in docs : \A y \in docs : x.id <= y.id
         IN  <<d>> \o ToArray(docs \ {d})

\* a deleteOne that removes nothing
DeleteOne_Noop(coll, doc) == coll

\* doc.deleteOne(): removes the document with the doc's _id, if still there
DeleteOne(coll, doc) == {d \in coll : d.id # doc.id}

\* a test that takes every path to exist
existsSync_Always(filePath) == TRUE

\* fs.existsSync(filePath)
existsSync(filePath) == filePath \in DOMAIN disk

\* the directory after fs.unlinkSync(filePath)
Unlinked(filePath) == [p \in DOMAIN disk \ {filePath} |-> disk[p]]

\* the directory after multer wrote the upload of request r under path
Written(path, r) ==
    [p \in DOMAIN disk \cup {path} |-> IF p = path THEN r ELSE disk[p]]

\* ------------------------------------------------------------ GET /courses
\* Course.find({}) and the response; ok = FALSE: the query is rejected
GetCourses(r, ok) ==
    /\ CanSend(r)
    /\ Outcome(ok)
    /\ req' = [req EXCEPT ![r] =
                 IF ok
                 THEN [Respond([@ EXCEPT !.kind = "courses"], 200)
                          EXCEPT !.body = courses]
                 ELSE Respond([@ EXCEPT !.kind = "courses"], 500)]
    /\ UNCHANGED <<courses, files, disk, now, nextId>>

\* ------------------------------------------------------ GET /files/:course
\* course is req.params.course; the handler decodes it and queries with it
GetFiles(r, course, ok) ==
    /\ CanSend(r)
    /\ Outcome(ok)
    /\ decodeURIComponent(course) = URIError => ok
    /\ LET courseName == decodeURIComponent(course)
           rq == [req[r] EXCEPT !.kind = "files", !.course = course]
       IN  req' = [req EXCEPT ![r] =
                     IF courseName = URIError \/ ~ok THEN Respond(rq, 500)
                     ELSE [Respond(rq, 200) EXCEPT !.body = FileFind(courseName)]]
    /\ UNCHANGED <<courses, files, disk, now, nextId>>

\* ------------------------------------------------- POST /admin/add-course
\* the name check and Course.findOne({ name })
AddCourse(r, name, ok) ==
    /\ CanSend(r)
    /\ Outcome(ok)
    /\ Falsy(name) => ok
    /\ LET rq == [req[r] EXCEPT !.kind = "add-course", !.course = name]
           existing == CourseFindOne(name)
       IN  req' = [req EXCEPT ![r] =
                     IF Falsy(name) THEN Respond(rq, 400)
                     ELSE IF ~ok THEN Respond(rq, 500)
                     ELSE IF existing # null
                          THEN Respond([rq EXCEPT !.doc = existing], 400)
                     ELSE [rq EXCEPT !.pc = "create"]]
    /\ UNCHANGED <<courses, files, disk, now, nextId>>

\* an insert guarded by a unique index on name: a second record of the same
\* name is refused and the request fails
AddCourseCreate_Unique(r, ok) ==
    /\ At(r, "add-course", "create")
    /\ Outcome(ok)
    /\ IF ok /\ \A c \in courses : c.name # req[r].course
       THEN /\ courses' = courses \cup {[id |-> nextId, name |-> req[r].course]}
            /\ nextId' = nextId + 1
            /\ req' = [req EXCEPT ![r] =
                         Respond([@ EXCEPT !.made = @ \cup {nextId}], 200)]
       ELSE /\ req' = [req EXCEPT ![r] = Respond(@, 500)]
            /\ UNCHANGED <<courses, nextId>>
    /\ UNCHANGED <<files, disk, now>>

\* Course.create({ name }) and the success response
AddCourseCreate(r, ok) ==
    /\ At(r, "add-course", "create")
    /\ Outcome(ok)
    /\ IF ok
       THEN /\ courses' = courses \cup {[id |-> nextId, name |-> req[r].course]}
            /\ nextId' = nextId + 1
            /\ req' = [req EXCEPT ![r] =
                         Respond([@ EXCEPT !.made = @ \cup {nextId}], 200)]
       ELSE /\ req' = [req EXCEPT ![r] = Respond(@, 500)]
            /\ UNCHANGED <<courses, nextId>>
    /\ UNCHANGED <<files, disk, now>>

\* --------------------------------------------------- POST /admin/add-file
\* the field check and Course.findOne({ name: course })
AddFile(r, title, url, course, ok) ==
    /\ CanSend(r)
    /\ Outcome(ok)
    /\ Falsy(title) \/ Falsy(url) \/ Falsy(course) => ok
    /\ LET rq == [req[r] EXCEPT !.kind = "add-file", !.title = title,
                                !.url = url, !.course = course]
           c == CourseFindOne(course)
       IN  req' = [req EXCEPT ![r] =
                     IF Falsy(title) \/ Falsy(url) \/ Falsy(course)
                     THEN Respond(rq, 400)
                     ELSE IF ~ok THEN Respond(rq, 500)
                     ELSE [rq EXCEPT !.doc = c,
                                     !.pc = IF c = null THEN "course" ELSE "file"]]
    /\ UNCHANGED <<courses, files, disk, now, nextId>>

\* if (!c) await Course.create({ name: course })
AddFileCourse(r, ok) ==
    /\ At(r, "add-file", "course")
    /\ Outcome(ok)
    /\ IF ok
       THEN /\ courses' = courses \cup {[id |-> nextId, name |-> req[r].course]}
            /\ nextId' = nextId + 1
            /\ req' = [req EXCEPT ![r].pc = "file",
                                  ![r].made = @ \cup {nextId}]
       ELSE /\ req' = [req EXCEPT ![r] = Respond(@, 500)]
            /\ UNCHANGED <<courses, nextId>>
    /\ UNCHANGED <<files, disk, now>>

\* File.create({ title, url, course }) and the success response
AddFileFile(r, ok) ==
    /\ At(r, "add-file", "file")
    /\ Outcome(ok)
    /\ IF ok
       THEN /\ files' = files \cup
                  {[id |-> nextId, title |-> req[r].title, url |-> req[r].url,
                    course |-> req[r].course]}
            /\ nextId' = nextId + 1
            /\ req' = [req EXCEPT ![r] =
                         Respond([@ EXCEPT !.made = @ \cup {nextId}], 200)]
       ELSE /\ req' = [req EXCEPT ![r] = Respond(@, 500)]
            /\ UNCHANGED <<files, nextId>>
    /\ UNCHANGED <<courses, disk, now>>

\* ------------------------------------------------ POST /admin/upload-file
\* upload.single('file'): multer names the file and writes it to uploads/
\* before the handler runs (a write error ends the request with a 500); then
\* the handler's field check
UploadFile(r, title, course, file, ok) ==
    /\ CanSend(r)
    /\ Outcome(ok)
    /\ LET filename == IF file = undefined THEN undefined ELSE safeName(now, file)
           rq == [req[r] EXCEPT !.kind = "upload-file", !.title = title,
                                !.course = course, !.file = file]
       IN  IF file # undefined /\ ~ok
           THEN /\ req' = [req EXCEPT ![r] = Respond(rq, 500)]
                /\ disk' = disk
           ELSE /\ disk' = IF file = undefined THEN disk
                           ELSE Written(UPLOADS \o filename, r)
                /\ req' = [req EXCEPT ![r] =
                             IF Falsy(title) \/ Falsy(course) \/ file = undefined
                             THEN Respond([rq EXCEPT !.filename = filename], 400)
                             ELSE [rq EXCEPT !.filename = filename, !.pc = "find"]]
    /\ file = undefined => ok
    /\ UNCHANGED <<courses, files, now, nextId>>

\* Course.findOne({ name: course })
UploadFind(r, ok) ==
    /\ At(r, "upload-file", "find")
    /\ Outcome(ok)
    /\ LET c == CourseFindOne(req[r].course)
       IN  req' = [req EXCEPT ![r] =
                     IF ~ok THEN Respond(@, 500)
                     ELSE [@ EXCEPT !.doc = c,
                                    !.pc = IF c = null THEN "course" ELSE "file"]]
    /\ UNCHANGED <<courses, files, disk, now, nextId>>

\* if (!c) await Course.create({ name: course })
UploadCourse(r, ok) ==
    /\ At(r, "upload-file", "course")
    /\ Outcome(ok)
    /\ IF ok
       THEN /\ courses' = courses \cup {[id |-> nextId, name |-> req[r].course]}
            /\ nextId' = nextId + 1
            /\ req' = [req EXCEPT ![r].pc = "file",
                                  ![r].made = @ \cup {nextId}]
       ELSE /\ req' = [req EXCEPT ![r] = Respond(@, 500)]
            /\ UNCHANGED <<courses, nextId>>
    /\ UNCHANGED <<files, disk, now>>

\* File.create({ title, url: fileUrl, course }) and the success response
UploadCreate(r, ok) ==
    /\ At(r, "upload-file", "file")
    /\ Outcome(ok)
    /\ IF ok
       THEN /\ files' = files \cup
                  {[id |-> nextId, title |-> req[r].title,
                    url |-> fileUrl(req[r].filename), course |-> req[r].course]}
            /\ nextId' = nextId + 1
            /\ req' = [req EXCEPT ![r] =
                         Respond([@ EXCEPT !.made = @ \cup {nextId}], 200)]
       ELSE /\ req' = [req EXCEPT ![r] = Respond(@, 500)]
            /\ UNCHANGED <<files, nextId>>
    /\ UNCHANGED <<courses, disk, now>>

\* ------------------------------------------- DELETE /admin/delete-file/:id
\* File.findById(req.params.id)
DeleteFile(r, id, ok) ==
    /\ CanSend(r)
    /\ Outcome(ok)
    /\ ~IsObjectId(id) => ok
    /\ LET rq == [req[r] EXCEPT !.kind = "delete-file", !.id = id]
           file == FindById(files, id)
       IN  req' = [req EXCEPT ![r] =
                     IF ~ok \/ ~IsObjectId(id) THEN Respond(rq, 500)
                     ELSE IF file = null THEN Respond(rq, 404)
                     ELSE [rq EXCEPT !.doc = file, !.pc = "unlink"]]
    /\ UNCHANGED <<courses, files, disk, now, nextId>>

\* the synchronous section after findById: the prefix test, existsSync and
\* unlinkSync; ok = FALSE: unlinkSync throws, which the handler's catch
\* turns into a 500
DeleteFileUnlink(r, ok) ==
    /\ At(r, "delete-file", "unlink")
    /\ Outcome(ok)
    /\ LET filePath == req[r].doc.url
           local == startsWith(req[r].doc.url, UPLOADS) /\ existsSync(filePath)
       IN  /\ ~local => ok
           /\ disk' = IF local /\ ok THEN Unlinked(filePath) ELSE disk
           /\ req' = [req EXCEPT ![r] =
                        IF ok THEN [@ EXCEPT !.pc = "delete"] ELSE Respond(@, 500)]
    /\ UNCHANGED <<courses, files, now, nextId>>

\* file.deleteOne() and the success response
DeleteFileDelete(r, ok) ==
    /\ At(r, "delete-file", "delete")
    /\ Outcome(ok)
    /\ files' = IF ok THEN DeleteOne(files, req[r].doc) ELSE files
    /\ req' = [req EXCEPT ![r] = Respond(@, IF ok THEN 200 ELSE 500)]
    /\ UNCHANGED <<courses, disk, now, nextId>>

\* ----------------------------------------- DELETE /admin/delete-course/:id
\* Course.findById(req.params.id)
DeleteCourse(r, id, ok) ==
    /\ CanSend(r)
    /\ Outcome(ok)
    /\ ~IsObjectId(id) => ok
    /\ LET rq == [req[r] EXCEPT !.kind = "delete-course", !.id = id]
           course == FindById(courses, id)
       IN  req' = [req EXCEPT ![r] =
                     IF ~ok \/ ~IsObjectId(id) THEN Respond(rq, 500)
                     ELSE IF course = null THEN Respond(rq, 404)
                     ELSE [rq EXCEPT !.doc = course, !.pc = "files"]]
    /\ UNCHANGED <<courses, files, disk, now, nextId>>

\* a handler that goes from the query straight to the course, without the loop
DeleteCourseFiles_NoLoop(r, ok) ==
    /\ At(r, "delete-course", "files")
    /\ Outcome(ok)
    /\ req' = [req EXCEPT ![r] =
                 IF ~ok THEN Respond(@, 500)
                 ELSE [@ EXCEPT !.todo = ToArray(FileFind(req[r].doc.name)),
                                !.pc = "course"]]
    /\ UNCHANGED <<courses, files, disk, now, nextId>>

\* File.find({ course: course.name }); todo holds the files the loop has
\* still to visit
DeleteCourseFiles(r, ok) ==
    /\ At(r, "delete-course", "files")
    /\ Outcome(ok)
    /\ LET found == ToArray(FileFind(req[r].doc.name))
       IN  req' = [req EXCEPT ![r] =
                     IF ~ok THEN Respond(@, 500)
                     ELSE [@ EXCEPT !.todo = found,
                                    !.pc = IF found = <<>> THEN "course"
                                           ELSE "unlink"]]
    /\ UNCHANGED <<courses, files, disk, now, nextId>>

\* loop body up to the await: the prefix test, existsSync and unlinkSync for
\* the file the loop is at; ok = FALSE: unlinkSync throws
DeleteCourseUnlink(r, ok) ==
    /\ At(r, "delete-course", "unlink")
    /\ Outcome(ok)
    /\ LET file == Head(req[r].todo)
           filePath == file.url
           local == startsWith(file.url, UPLOADS) /\ existsSync(filePath)
       IN  /\ ~local => ok
           /\ disk' = IF local /\ ok THEN Unlinked(filePath) ELSE disk
           /\ req' = [req EXCEPT ![r] =
                        IF ok THEN [@ EXCEPT !.pc = "delfile"] ELSE Respond(@, 500)]
    /\ UNCHANGED <<courses, files, now, nextId>>

\* a loop that never leaves the file it is at
DeleteCourseDeleteFile_Stuck(r, ok) ==
    /\ At(r, "delete-course", "delfile")
    /\ Outcome(ok)
    /\ IF ok
       THEN /\ files' = DeleteOne(files, Head(req[r].todo))
            /\ req' = [req EXCEPT ![r].pc = "unlink"]
       ELSE /\ files' = files
            /\ req' = [req EXCEPT ![r] = Respond(@, 500)]
    /\ UNCHANGED <<courses, disk, now, nextId>>

\* await file.deleteOne() in the loop, then the next file or the course
DeleteCourseDeleteFile(r, ok) ==
    /\ At(r, "delete-course", "delfile")
    /\ Outcome(ok)
    /\ LET rest == Tail(req[r].todo)
       IN  IF ok
           THEN /\ files' = DeleteOne(files, Head(req[r].todo))
                /\ req' = [req EXCEPT ![r].todo = rest,
                                      ![r].pc = IF rest = <<>> THEN "course"
                                                ELSE "unlink"]
           ELSE /\ files' = files
                /\ req' = [req EXCEPT ![r] = Respond(@, 500)]
    /\ UNCHANGED <<courses, disk, now, nextId>>

\* a last step whose delete takes effect although it reports a failure
DeleteCourseDeleteCourse_Lossy(r, ok) ==
    /\ At(r, "delete-course", "course")
    /\ Outcome(ok)
    /\ courses' = DeleteOne(courses, req[r].doc)
    /\ req' = [req EXCEPT ![r] = Respond(@, IF ok THEN 200 ELSE 500)]
    /\ UNCHANGED <<files, disk, now, nextId>>

\* course.deleteOne() and the success response
DeleteCourseDeleteCourse(r, ok) ==
    /\ At(r, "delete-course", "course")
    /\ Outcome(ok)
    /\ courses' = IF ok THEN DeleteOne(courses, req[r].doc) ELSE courses
    /\ req' = [req EXCEPT ![r] = Respond(@, IF ok THEN 200 ELSE 500)]
    /\ UNCHANGED <<files, disk, now, nextId>>

\* ------------------------------------------------------------------- clock
Tick ==
    /\ now < MaxTime
    /\ now' = now + 1
    /\ UNCHANGED <<courses, files, disk, nextId, faults, req>>

\* ids a client can name in a delete: any id handed out so far, 0, an id
\* no document has, or -1, a parameter that is no ObjectId
Ids == (-1)..(nextId - 1)

OrUndefined(S) == S \cup {undefined}

\* a complete body of add-file with one field left out
Without(b, i) == [j \in 1..3 |-> IF j = i THEN undefined ELSE b[j]]

\* bodies of add-file: every complete one, and one with each field missing
AddFileBodies ==
    (Titles \X Urls \X CourseNames) \cup
    {Without(<<<<"T">>, <<"h", "t", "t", "p", ":", "/", "/", "e">>, <<"M">>>>, i) :
        i \in 1..3}

\* forms of upload-file: every complete one, and one with each part missing
UploadForms ==
    (Titles \X CourseNames \X OriginalNames) \cup
    {Without(<<<<"T">>, <<"M">>, <<"a", " ", "b">>>>, i) : i \in 1..3}

Next ==
    \/ \E r \in Reqs, ok \in BOOLEAN : GetCourses(r, ok)
    \/ \E r \in Reqs, n \in RouteNames, ok \in BOOLEAN : GetFiles(r, n, ok)
    \/ \E r \in Reqs, n \in CourseNames \cup {undefined, <<>>}, ok \in BOOLEAN :
          AddCourse(r, n, ok)
    \/ \E r \in Reqs, ok \in BOOLEAN : AddCourseCreate(r, ok)
    \/ \E r \in Reqs, b \in AddFileBodies, ok \in BOOLEAN :
          AddFile(r, b[1], b[2], b[3], ok)
    \/ \E r \in Reqs, ok \in BOOLEAN : AddFileCourse(r, ok)
    \/ \E r \in Reqs, ok \in BOOLEAN : AddFileFile(r, ok)
    \/ \E r \in Reqs, b \in UploadForms, ok \in BOOLEAN :
          UploadFile(r, b[1], b[2], b[3], ok)
    \/ \E r \in Reqs, ok \in BOOLEAN : UploadFind(r, ok)
    \/ \E r \in Reqs, ok \in BOOLEAN : UploadCourse(r, ok)
    \/ \E r \in Reqs, ok \in BOOLEAN : UploadCreate(r, ok)
    \/ \E r \in Reqs, id \in Ids, ok \in BOOLEAN : DeleteFile(r, id, ok)
    \/ \E r \in Reqs, ok \in BOOLEAN : DeleteFileUnlink(r, ok)
    \/ \E r \in Reqs, ok \in BOOLEAN : DeleteFileDelete(r, ok)
    \/ \E r \in Reqs, id \in Ids, ok \in BOOLEAN : DeleteCourse(r, id, ok)
    \/ \E r \in Reqs, ok \in BOOLEAN : DeleteCourseFiles(r, ok)
    \/ \E r \in Reqs, ok \in BOOLEAN : DeleteCourseUnlink(r, ok)
    \/ \E r \in Reqs, ok \in BOOLEAN : DeleteCourseDeleteFile(r, ok)
    \/ \E r \in Reqs, ok \in BOOLEAN : DeleteCourseDeleteCourse(r, ok)
    \/ Tick

Spec == Init /\ [][Next]_vars

\* the continuation of request r after the operation it awaits has settled
Continue(r) ==
    \E ok \in BOOLEAN :
        \/ AddCourseCreate(r, ok)
        \/ AddFileCourse(r, ok) \/ AddFileFile(r, ok)
        \/ UploadFind(r, ok) \/ UploadCourse(r, ok) \/ UploadCreate(r, ok)
        \/ DeleteFileUnlink(r, ok) \/ DeleteFileDelete(r, ok)
        \/ DeleteCourseFiles(r, ok) \/ DeleteCourseUnlink(r, ok)
        \/ DeleteCourseDeleteFile(r, ok) \/ DeleteCourseDeleteCourse(r, ok)

\* every awaited storage operation settles, and the event loop then runs the
\* continuation of the handler that awaits it
LiveSpec == Spec /\ \A r \in Reqs : WF_vars(Continue(r))

\* =================================================================== claims
\* the step in which request r is sent and its first operation takes effect
Sent(r, kind) == req[r].pc = "idle" /\ req'[r].kind = kind

\* the step is one of request r, of the given kind
StepOf(r, kind) == req'[r] # req[r] /\ req'[r].kind = kind

\* the operation of the step did not fail
NoFault == faults' = faults

Named(name) == {c \in courses : c.name = name}

\* C1: an add-course request whose name is the name of a Course record that
\* exists when the handler looks it up is answered 400 (500 if the lookup
\* itself is rejected), and it creates no Course record.
C1_DuplicateNameRejected ==
    [][\A r \in Reqs :
         Sent(r, "add-course") /\ Named(req'[r].course) # {}
         => /\ req'[r].pc = "done"
            /\ req'[r].resp = IF NoFault THEN 400 ELSE 500
            /\ courses' = courses]_vars

\* an add-course request was answered 400 because a record of its name existed
C1_Witness ==
    \E r \in Reqs :
        /\ req[r].kind = "add-course" /\ req[r].resp = 400
        /\ req[r].doc # null /\ req[r].doc.name = req[r].course
        /\ req[r].made = {}
        /\ Cardinality(Named(req[r].course)) = 1

\* C2: when a delete-course request is answered with success, the Course
\* record of the given id is gone and no File record carries that course's
\* name, so that listing the name yields nothing.
C2_CascadeLeavesNothing ==
    [][\A r \in Reqs :
         StepOf(r, "delete-course") /\ req'[r].resp = 200
         => /\ \A c \in courses' : c.id # req[r].id
            /\ {f \in files' : f.course = req[r].doc.name} = {}]_vars

\* C3: between requests, every File record's course is the name of some
\* Course record.
C3_FileCourseExists ==
    InFlight = {} => \A f \in files : Named(f.course) # {}

\* C4: two upload-file requests that both succeed were stored under
\* different names in the upload directory.
C4_DistinctStorageKeys ==
    \A r, q \in Reqs :
        /\ r # q
        /\ req[r].kind = "upload-file" /\ req[r].resp = 200
        /\ req[q].kind = "upload-file" /\ req[q].resp = 200
        => req[r].filename # req[q].filename

\* the upload directory lost exactly the object at path, if it had one
RemovedOnly(path) ==
    /\ DOMAIN disk' = DOMAIN disk \ {path}
    /\ \A p \in DOMAIN disk' : disk'[p] = disk[p]

\* the url names an object of local storage: its first eight characters are
\* 'uploads/'
IsLocalUrl(url) ==
    /\ Len(url) >= 8
    /\ <<url[1], url[2], url[3], url[4], url[5], url[6], url[7], url[8]>> =
          <<"u", "p", "l", "o", "a", "d", "s", "/">>

\* C5: a delete-file request that gets past its filesystem section has
\* removed the object at the File's url when the url starts with 'uploads/'
\* and has left the upload directory as it was for any other url; no other
\* step of the request touches the directory, and the success response comes
\* with the File record deleted.
C5_DeleteFileStorageEffect ==
    [][\A r \in Reqs :
         StepOf(r, "delete-file")
         => /\ req[r].pc = "unlink" /\ req'[r].pc = "delete"
               => IF IsLocalUrl(req[r].doc.url)
                  THEN RemovedOnly(req[r].doc.url)
                  ELSE disk' = disk
            /\ req[r].pc # "unlink" => disk' = disk
            /\ req'[r].resp = 200
               => files' = {f \in files : f.id # req[r].id}]_vars

\* a delete-file request succeeded for a File stored by an upload, and the
\* object the upload wrote is gone
C5_Witness ==
    \E r, q \in Reqs :
        /\ req[r].kind = "delete-file" /\ req[r].resp = 200
        /\ req[q].kind = "upload-file" /\ req[q].resp = 200
        /\ req[r].id \in req[q].made
        /\ req[r].doc.url = fileUrl(req[q].filename)
        /\ ~existsSync(req[r].doc.url)
        /\ FindById(files, req[r].id) = null

\* C6: a failure to remove the local object does not fail the request: after
\* the filesystem section of delete-file or of the delete-course loop the
\* request goes on to delete the record.
C6_UnlinkFailureSwallowed ==
    [][\A r \in Reqs :
         req[r].pc = "unlink" /\ req'[r] # req[r]
         => req'[r].pc # "done" /\ req'[r].resp # 500]_vars

\* C7: list-files-by-course for the name n is answered with exactly the File
\* records whose course is n, and never with an error for an unknown name.
C7_ListExactlyByCourse ==
    [][\A r \in Reqs :
         Sent(r, "files") /\ NoFault
         => /\ req'[r].resp = 200
            /\ req'[r].body = {f \in files : f.course = req'[r].course}]_vars

\* C8: nothing guards the insert of add-course: a request that passed the
\* existence check inserts its record and succeeds whatever has been inserted
\* since, so two requests for one absent name both succeed and leave two
\* Course records of that name.
C8_InsertUnguarded ==
    [][\A r \in Reqs :
         StepOf(r, "add-course") /\ req[r].pc = "create" /\ NoFault
         => /\ req'[r].resp = 200
            /\ \E c \in courses' \ courses :
                  /\ c.name = req[r].course
                  /\ courses' = courses \cup {c}]_vars

\* two add-course requests for one name both found no record, both succeeded,
\* and their two records of that name exist
C8_Witness ==
    \E r, q \in Reqs :
        /\ r # q
        /\ req[r].kind = "add-course" /\ req[q].kind = "add-course"
        /\ req[r].course = req[q].course
        /\ req[r].resp = 200 /\ req[q].resp = 200
        /\ req[r].doc = null /\ req[q].doc = null
        /\ \A i \in req[r].made \cup req[q].made :
              \E c \in Named(req[r].course) : c.id = i
        /\ Cardinality(Named(req[r].course)) = 2

\* C9: a delete-file or delete-course request that looks its id up after a
\* delete of the same id has been answered with success is answered 404 and
\* changes no Course record, no File record and no stored object.
C9_SecondDeleteNotFound ==
    [][\A r, q \in Reqs :
         /\ Sent(r, "delete-file") \/ Sent(r, "delete-course")
         /\ req[q].kind = req'[r].kind /\ req[q].id = req'[r].id
         /\ req[q].resp = 200
         /\ NoFault
         => /\ req'[r].pc = "done" /\ req'[r].resp = 404
            /\ UNCHANGED <<courses, files, disk>>]_vars

\* a delete was answered 404 after a delete of the same id had succeeded
C9_Witness ==
    \E r, q \in Reqs :
        /\ q < r
        /\ req[q].kind \in {"delete-file", "delete-course"}
        /\ req[r].kind = req[q].kind /\ req[r].id = req[q].id
        /\ req[q].resp = 200 /\ req[r].resp = 404

\* C10: an add-file request with title, url and course present creates a
\* Course of the given name exactly when its lookup finds none, and its
\* success response comes with exactly one new File record of the three given
\* values; it creates nothing else.
C10_AddFileCreates ==
    [][\A r \in Reqs :
         StepOf(r, "add-file")
         => /\ req[r].pc = "idle"
               => /\ courses' = courses /\ files' = files
                  /\ req'[r].pc = "course" => Named(req'[r].course) = {}
                  /\ req'[r].pc = "file" => Named(req'[r].course) # {}
            /\ req[r].pc = "course" /\ NoFault
               => /\ files' = files
                  /\ \E c \in courses' \ courses :
                        /\ c.name = req[r].course
                        /\ courses' = courses \cup {c}
            /\ req'[r].resp = 200
               => /\ req[r].pc = "file"
                  /\ courses' = courses
                  /\ \E f \in files' \ files :
                        /\ f.title = req[r].title /\ f.url = req[r].url
                        /\ f.course = req[r].course
                        /\ files' = files \cup {f}
                  /\ Cardinality(req'[r].made) =
                        IF req[r].doc = null THEN 2 ELSE 1
            /\ req'[r].resp \in {400, 500} => courses' = courses /\ files' = files]_vars

\* one add-file request created its course and its File, another found the
\* course and created only its File
C10_Witness ==
    \E r, q \in Reqs :
        /\ req[r].kind = "add-file" /\ req[r].resp = 200
        /\ req[r].doc = null /\ Cardinality(req[r].made) = 2
        /\ req[q].kind = "add-file" /\ req[q].resp = 200
        /\ req[q].doc # null /\ Cardinality(req[q].made) = 1
        /\ req[q].course = req[r].course
        /\ Cardinality(Named(req[r].course)) = 1

\* the field is missing from the body, or is the empty string
Absent(x) == x \in {undefined, <<>>}

\* C11: an add-course request without a name (missing or empty) and an
\* add-file request without title, url or course are answered 400 in the
\* step that receives them, with the Course and the File collection left as
\* they were; a request that has been answered takes no further step.
C11_MissingFieldRejected ==
    [][\A r \in Reqs :
         /\ \/ Sent(r, "add-course") /\ Absent(req'[r].course)
            \/ /\ Sent(r, "add-file")
               /\ Absent(req'[r].title) \/ Absent(req'[r].url)
                     \/ Absent(req'[r].course)
            => /\ req'[r].pc = "done" /\ req'[r].resp = 400
               /\ courses' = courses /\ files' = files
         /\ req[r].pc = "done" => req'[r] = req[r]]_vars

\* an add-course request with an empty name and an add-file request for a
\* course that has no record, with its url missing, were both answered 400,
\* and no Course was created
C11_Witness ==
    \E r, q \in Reqs :
        /\ req[r].kind = "add-course" /\ req[r].course = <<>>
        /\ req[r].resp = 400
        /\ req[q].kind = "add-file" /\ req[q].url = undefined
        /\ req[q].course \in CourseNames
        /\ req[q].resp = 400
        /\ courses = {} /\ files = {}

\* C12: a delete-file or delete-course request whose id is the id of no
\* record is answered 404 and leaves the Course collection, the File
\* collection and the upload directory as they were.
C12_UnknownIdNotFound ==
    [][\A r \in Reqs :
         /\ \/ /\ Sent(r, "delete-file")
               /\ \A f \in files : f.id # req'[r].id
            \/ /\ Sent(r, "delete-course")
               /\ \A c \in courses : c.id # req'[r].id
         /\ NoFault
         => /\ req'[r].pc = "done" /\ req'[r].resp = 404
            /\ UNCHANGED <<courses, files, disk>>]_vars

\* ids of the documents of a collection or of an array of documents
IdsOf(docs) == {d.id : d \in docs}
Elems(seq) == {seq[i] : i \in 1..Len(seq)}

\* C13: delete-course is not atomic: the step at which an operation of the
\* request fails answers 500 and changes nothing, so the File records the
\* loop has deleted stay deleted, those it has not reached stay, and the
\* Course record stays, which only the last, successful step removes.
C13_PartialCascadeKept ==
    [][\A r \in Reqs :
         StepOf(r, "delete-course")
         => /\ req'[r].resp = 500 => UNCHANGED <<courses, files, disk>>
            /\ courses' # courses => req'[r].resp = 200]_vars

\* a delete-course request was answered 500 in its loop: a File of the
\* course, created by an earlier request, is deleted, the File the loop was
\* at and the Course record still exist, and no other delete took part
C13_Witness ==
    \E r, q \in Reqs :
        /\ req[r].kind = "delete-course" /\ req[r].resp = 500
        /\ req[r].todo # <<>>
        /\ Elems(req[r].todo) \subseteq files
        /\ req[r].doc \in courses
        /\ req[q].kind \in {"add-file", "upload-file"} /\ req[q].resp = 200
        /\ req[q].course = req[r].doc.name
        /\ req[q].made \cap (IdsOf(files) \cup IdsOf(courses)) = {}
        /\ \A p \in Reqs \ {r} :
              req[p].kind \notin {"delete-file", "delete-course"}

C15_MissingObjectNoError ==
    [][\A r \in Reqs :
         /\ /\ StepOf(r, "delete-file") /\ req[r].pc = "unlink"
            /\ IsLocalUrl(req[r].doc.url)
            /\ req[r].doc.url \notin DOMAIN disk
            => req'[r].pc = "delete" /\ disk' = disk /\ NoFault
         /\ StepOf(r, "delete-file") /\ req[r].pc = "delete" /\ NoFault
            => req'[r].resp = 200 /\ req[r].id \notin IdsOf(files')
         /\ /\ StepOf(r, "delete-course") /\ req[r].pc = "unlink"
            /\ IsLocalUrl(Head(req[r].todo).url)
            /\ Head(req[r].todo).url \notin DOMAIN disk
            => req'[r].pc = "delfile" /\ disk' = disk /\ NoFault]_vars

\* a delete-file request succeeded for a File whose url has the prefix,
\* in a behaviour in which nothing was ever uploaded and nothing failed
C15_Witness ==
    \E r \in Reqs :
        /\ req[r].kind = "delete-file" /\ req[r].resp = 200
        /\ IsLocalUrl(req[r].doc.url)
        /\ req[r].id \notin IdsOf(files)
        /\ \A q \in Reqs : req[q].kind # "upload-file"
        /\ faults = 0

\* the File records a delete request is about to delete
Doomed(r) ==
    IF req[r].kind = "delete-file" THEN {req[r].doc} ELSE Elems(req[r].todo)

\* C16: the delete of a File record, directly or in a course cascade, removes
\* no stored object that the url of another File record, one the request is
\* not deleting, points at.
C16_NoSharedObjectRemoved ==
    [][\A r \in Reqs :
         req[r].pc = "unlink" /\ req'[r] # req[r]
         => \A p \in DOMAIN disk \ DOMAIN disk' :
               \A f \in files : f.url = p => f \in Doomed(r)]_vars

\* C17: an upload-file request answered 400 leaves the upload directory as
\* it was.
C17_RejectedUploadStoresNothing ==
    [][\A r \in Reqs :
         Sent(r, "upload-file") /\ req'[r].resp = 400 => disk' = disk]_vars

\* C18: a delete-course request for the Course of name n creates nothing,
\* deletes only File records whose course is n, deletes no Course record but
\* the one of the given id, and removes no stored object but the one at the
\* url of the File of n its loop is at.
C18_DeleteCourseFrame ==
    [][\A r \in Reqs :
         StepOf(r, "delete-course")
         => /\ files' \subseteq files /\ courses' \subseteq courses
            /\ \A f \in files \ files' : f.course = req[r].doc.name
            /\ \A c \in courses \ courses' : c.id = req[r].id
            /\ \A p \in DOMAIN disk' : p \in DOMAIN disk /\ disk'[p] = disk[p]
            /\ \A p \in DOMAIN disk \ DOMAIN disk' :
                  /\ req[r].pc = "unlink"
                  /\ Head(req[r].todo).url = p
                  /\ Head(req[r].todo).course = req[r].doc.name]_vars

\* a delete-course request succeeded and deleted a File of its course, while
\* the Course and the File of another name are still there
C18_Witness ==
    \E r, q, p \in Reqs :
        /\ req[r].kind = "delete-course" /\ req[r].resp = 200
        /\ req[r].doc \notin courses
        /\ req[q].kind \in {"add-file", "upload-file"} /\ req[q].resp = 200
        /\ req[q].course = req[r].doc.name
        /\ req[q].made \cap (IdsOf(files) \cup IdsOf(courses)) = {}
        /\ req[p].kind \in {"add-file", "upload-file"} /\ req[p].resp = 200
        /\ req[p].course # req[r].doc.name
        /\ req[p].made \subseteq (IdsOf(files) \cup IdsOf(courses))
        /\ Cardinality(req[p].made) = 2

\* C19: under fair scheduling of the awaited storage operations every request
\* that was accepted eventually completes with a response of 200, 400, 404 or
\* 500, whatever requests are interleaved with it, and a request that has
\* responded takes no further step (one response); so the loop of the
\* delete-course cascade terminates.  A request never leaves "done", so
\* "again and again no request is in flight" says of each request in flight
\* that it completes.
C19_EveryRequestCompletes ==
    /\ []<>(InFlight = {})
    /\ [](\A r \in Reqs :
            req[r].pc = "done" => req[r].resp \in {200, 400, 404, 500})
    /\ [][\A r \in Reqs : req[r].pc = "done" => req'[r] = req[r]]_vars

\* a cascade over a found File has completed among interleaved requests, and
\* every request has responded
C19_Witness ==
    /\ \A r \in Reqs : req[r].pc = "done"
    /\ \E r, q \in Reqs :
          /\ req[r].kind = "delete-course" /\ req[r].resp = 200
          /\ req[q].kind = "upload-file" /\ req[q].resp = 200
          /\ req[q].course = req[r].doc.name
          /\ req[q].made # {}
          /\ req[q].made \cap IdsOf(files) = {}
          /\ r < q
====
